---- MODULE Spec2Model ----
(***************************************************************************)
(* Pedestrian evacuation simulation (lab3/pedestrian-simulation):          *)
(* Vector, Environment, Agent and Simulation.                              *)
(*                                                                         *)
(* Numbers.  The program computes on IEEE doubles.  Here a number is an    *)
(* integer count of 1/SC pixel (fixed point), and every operation that     *)
(* rounds in the program (division, square root, a product with a          *)
(* fraction) rounds to the nearest unit, ties to even, as the program's    *)
(* arithmetic does.  "Magnitude" and "distance" are the values Vector.mag  *)
(* and Vector.dist compute.                                                *)
(***************************************************************************)
EXTENDS Integers, Sequences, FiniteSets

VARIABLES
    objs,          \* the Agent objects by identity: id -> fields
    agents,        \* Simulation.agents: the active list (ids, array order)
    grid,          \* Simulation.grid: cell -> bucket (ids, push order)
    frame,         \* Simulation.frame
    maxDensity,    \* Simulation.maxDensity
    jamCount,      \* Simulation.jamCount
    averageSpeed,  \* Simulation.averageSpeed
    params,        \* Simulation.params
    reports,       \* number of evacuation reports written to the console
    resets,        \* number of Simulation.reset calls so far
    snap,          \* history: objs and agents when updateGrid last ran, and the
                   \* getNeighbors calls of the calculateMaxDensity after it
    swept,         \* history: what the last update's sweep did, per agent
    probe,         \* argument and result of a pure function under test
    automaton      \* lab 1: the Automaton, the word identifyWord reads, its result

vars == <<objs, agents, grid, frame, maxDensity, jamCount, averageSpeed,
          params, reports, resets, snap, swept, probe, automaton>>

----------------------------------------------------------------------------
(* Number representation *)

SC == 40

Px(n) == n * SC

Abs(a) == IF a < 0 THEN -a ELSE a

Min(a, b) == IF a < b THEN a ELSE b

Max(a, b) == IF a > b THEN a ELSE b

\* a / b rounded to the nearest integer, ties to even (b > 0).
RoundDivPos(n, b) ==
    LET q == n \div b
        r == n % b
    IN  IF 2 * r > b \/ (2 * r = b /\ q % 2 = 1) THEN q + 1 ELSE q

RoundDiv(a, b) ==
    IF b < 0 THEN (IF a > 0 THEN -RoundDivPos(a, -b) ELSE RoundDivPos(-a, -b))
    ELSE IF a < 0 THEN -RoundDivPos(-a, b) ELSE RoundDivPos(a, b)

\* Math.floor(a / b) for b > 0.
FloorDiv(a, b) == a \div b

\* Math.ceil(a / b) for b > 0.
CeilDiv(a, b) == -((-a) \div b)

\* One base-16 digit of the integer square root: the largest a + d * w,
\* d in 0..15, whose square is at most n (46340 is the largest root of a
\* 32-bit number).
SqrtDigit(n, a, w) ==
    a + w * Cardinality({d \in 1..15 : a + d * w <= 46340
                                        /\ (a + d * w) * (a + d * w) <= n})

\* Math.sqrt: the nearest integer to the square root of n.
Sqrt(n) ==
    LET s == SqrtDigit(n, SqrtDigit(n, SqrtDigit(n, SqrtDigit(n, 0, 4096), 256), 16), 1)
    IN  IF n - s * s > s THEN s + 1 ELSE s

----------------------------------------------------------------------------
(* Vector *)

Vec(x, y) == [x |-> x, y |-> y]

Zero == Vec(0, 0)

VAdd(a, b) == Vec(a.x + b.x, a.y + b.y)

VSub(a, b) == Vec(a.x - b.x, a.y - b.y)

\* s is a fixed-point scalar.
VMult(v, s) == Vec(RoundDiv(v.x * s, SC), RoundDiv(v.y * s, SC))

\* s is a fixed-point scalar; dividing by zero leaves the vector as it is.
VDiv(v, s) ==
    IF s # 0 THEN Vec(RoundDiv(v.x * SC, s), RoundDiv(v.y * SC, s)) ELSE v

\* count is a plain integer (a number of contributions).
VDivCount(v, count) ==
    IF count # 0 THEN Vec(RoundDiv(v.x, count), RoundDiv(v.y, count)) ELSE v

Mag(v) == Sqrt(v.x * v.x + v.y * v.y)

Normalize(v) ==
    LET m == Mag(v) IN IF m # 0 THEN VDiv(v, m) ELSE v

Limit(v, max) ==
    IF Mag(v) > max THEN VMult(Normalize(v), max) ELSE v

Dist(a, b) == Mag(VSub(a, b))

\* The sum of vs[lo..hi], as a loop of add() calls leaves it (the additions
\* are exact here, so the order they are made in does not show).
RECURSIVE VSum(_, _, _)
VSum(vs, lo, hi) ==
    IF lo > hi THEN Zero
    ELSE IF lo = hi THEN vs[lo]
    ELSE VAdd(VSum(vs, lo, (lo + hi) \div 2), VSum(vs, (lo + hi) \div 2 + 1, hi))

----------------------------------------------------------------------------
(* Environment *)

Width == 800

Height == 600

AgentRadius == 5

ExitThreshold == 10

Rect(x, y, w, h) == [x |-> Px(x), y |-> Px(y), w |-> Px(w), h |-> Px(h)]

Exit == [x |-> Px(Width - 50), y |-> Px(Height) \div 2 - Px(25),
         w |-> Px(50), h |-> Px(50)]

Walls ==
    << Rect(0, 0, Width, 20),
       Rect(0, Height - 20, Width, 20),
       Rect(0, 0, 20, Height),
       Rect(300, 100, 20, 200),
       Rect(300, 400, 20, 200) >>

RestrictedZones == << Rect(100, 100, 100, 100) >>

RectIntersectStrict(r1, r2) ==
    ~( r1.x + r1.w <= r2.x
       \/ r1.x >= r2.x + r2.w
       \/ r1.y + r1.h <= r2.y
       \/ r1.y >= r2.y + r2.h )

RectIntersect(r1, r2) ==
    ~( r1.x + r1.w < r2.x
       \/ r1.x > r2.x + r2.w
       \/ r1.y + r1.h < r2.y
       \/ r1.y > r2.y + r2.h )

AgentRect(pos) ==
    [x |-> pos.x - Px(AgentRadius), y |-> pos.y - Px(AgentRadius),
     w |-> Px(AgentRadius) * 2, h |-> Px(AgentRadius) * 2]

IsPositionValidWallsOnly(pos) ==
    /\ \A i \in 1..Len(Walls) : ~RectIntersect(AgentRect(pos), Walls[i])
    /\ ~(pos.x < 0 \/ pos.x > Px(Width) \/ pos.y < 0 \/ pos.y > Px(Height))

IsPositionValid(pos) ==
    /\ \A i \in 1..Len(Walls) : ~RectIntersect(AgentRect(pos), Walls[i])
    /\ \A i \in 1..Len(RestrictedZones) :
           ~RectIntersect(AgentRect(pos), RestrictedZones[i])
    /\ ~(pos.x < 0 \/ pos.x > Px(Width) \/ pos.y < 0 \/ pos.y > Px(Height))

ExitCenter == Vec(Exit.x + Exit.w \div 2, Exit.y + Exit.h \div 2)

\* isAtExit with the exit rectangle in place of the distance to its center
IsAtExitRect(pos) ==
    /\ pos.x >= Exit.x /\ pos.x <= Exit.x + Exit.w
    /\ pos.y >= Exit.y /\ pos.y <= Exit.y + Exit.h

\* isAtExit(pos, threshold = 10)
IsAtExit(pos) == Dist(pos, ExitCenter) < Px(ExitThreshold)

----------------------------------------------------------------------------
(* Agent *)

MaxSpeedPx == 2

DesiredSeparationPx == 20

WallPerceptionPx == 30

\* new Agent(x, y, maxSpeed, perceptionRadius, desiredSeparation)
NewAgent(pos, maxSpeed, perceptionRadius, desiredSeparation) ==
    [position |-> pos,
     velocity |-> Zero,
     maxSpeed |-> maxSpeed,
     perceptionRadius |-> perceptionRadius,
     desiredSeparation |-> desiredSeparation,
     wallPerceptionRadius |-> Px(WallPerceptionPx)]

\* The tail every steering rule shares: steer.normalize().mult(maxSpeed).sub(velocity)
Steer(self, v) == VSub(VMult(Normalize(v), self.maxSpeed), self.velocity)

\* if (count > 0) steer.div(count)
Averaged(sum, count) == IF count > 0 THEN VDivCount(sum, count) ELSE sum

\* if (steer.mag() > 0) steer.normalize().mult(maxSpeed).sub(velocity)
SteerIfAny(self, steer) == IF Mag(steer) > 0 THEN Steer(self, steer) ELSE steer

\* One contribution of separation / wallAvoidance: a unit vector away from
\* `from`, weighted by 1 / d.
Away(self, from, d) == VDiv(Normalize(VSub(self.position, from)), d)

\* neighbors: the sequence of neighbor objects, as they are when read.
\* close: the neighbors that contribute (0 < d < desiredSeparation).
Separation(self, neighbors) ==
    LET close == {k \in 1..Len(neighbors) :
                     LET d == Dist(self.position, neighbors[k].position)
                     IN  d > 0 /\ d < self.desiredSeparation}
        sum == VSum([k \in 1..Len(neighbors) |->
                        IF k \in close
                        THEN Away(self, neighbors[k].position,
                                  Dist(self.position, neighbors[k].position))
                        ELSE Zero],
                    1, Len(neighbors))
    IN  SteerIfAny(self, Averaged(sum, Cardinality(close)))

\* alignment without the count > 0 test: steering computed from an empty sum
AlignmentUnguarded(self, neighbors) ==
    Steer(self, VDivCount(VSum([k \in 1..Len(neighbors) |-> neighbors[k].velocity],
                               1, Len(neighbors)),
                          Len(neighbors)))

Alignment(self, neighbors) ==
    IF Len(neighbors) > 0
    THEN Steer(self, VDivCount(VSum([k \in 1..Len(neighbors) |-> neighbors[k].velocity],
                                    1, Len(neighbors)),
                               Len(neighbors)))
    ELSE Zero

Cohesion(self, neighbors) ==
    IF Len(neighbors) > 0
    THEN Steer(self, VSub(VDivCount(VSum([k \in 1..Len(neighbors) |->
                                             neighbors[k].position],
                                         1, Len(neighbors)),
                                    Len(neighbors)),
                          self.position))
    ELSE Zero

SeekGoalNoVelocity(self, goal) == VMult(Normalize(VSub(goal, self.position)), self.maxSpeed)

SeekGoal(self, goal) == Steer(self, VSub(goal, self.position))

ClosestPoint(pos, rect) ==
    Vec(Max(rect.x, Min(pos.x, rect.x + rect.w)),
        Max(rect.y, Min(pos.y, rect.y + rect.h)))

\* The walls first, then the restricted zones, into one accumulator.
\* near: the rectangles that contribute (0 < d < wallPerceptionRadius).
WallAvoidance(self) ==
    LET rects == Walls \o RestrictedZones
        near == {k \in 1..Len(rects) :
                    LET d == Dist(self.position, ClosestPoint(self.position, rects[k]))
                    IN  d > 0 /\ d < self.wallPerceptionRadius}
        sum == VSum([k \in 1..Len(rects) |->
                        IF k \in near
                        THEN Away(self, ClosestPoint(self.position, rects[k]),
                                  Dist(self.position,
                                       ClosestPoint(self.position, rects[k])))
                        ELSE Zero],
                    1, Len(rects))
    IN  SteerIfAny(self, Averaged(sum, Cardinality(near)))

ApplyForce(self, force) == [self EXCEPT !.velocity = VAdd(@, force)]

\* 0.8
Damping == (8 * SC) \div 10

\* update with the damped candidate checked again, the agent staying where
\* it is when that one is invalid too
AgentUpdateRechecked(self) ==
    LET v == Limit(self.velocity, self.maxSpeed)
        nextPosition == VAdd(self.position, v)
        w == VMult(v, Damping)
    IN  IF IsPositionValid(nextPosition)
        THEN [self EXCEPT !.velocity = v, !.position = nextPosition]
        ELSE IF IsPositionValid(VAdd(self.position, w))
             THEN [self EXCEPT !.velocity = w, !.position = VAdd(self.position, w)]
             ELSE [self EXCEPT !.velocity = w]

\* this.position = Vector.add(this.position, this.velocity), velocity being v
Advance(self, v) == [self EXCEPT !.velocity = v, !.position = VAdd(self.position, v)]

\* The rest of update() once the velocity is clamped to v.
SoftCorrected(self, v) ==
    IF ~IsPositionValid(VAdd(self.position, v))
    THEN Advance(self, VMult(v, Damping))
    ELSE Advance(self, v)

AgentUpdate(self) == SoftCorrected(self, Limit(self.velocity, self.maxSpeed))

----------------------------------------------------------------------------
(* Simulation *)

GridSizePx == 50

NeighborLimit == 10

\* 1.5, the weight update() gives wallAvoidance
WallAvoidWeight == (15 * SC) \div 10

\* 0.5, the speed below which an agent counts as jammed
JamSpeed == (5 * SC) \div 10

Cols == CeilDiv(Px(Width), Px(GridSizePx))

Rows == CeilDiv(Px(Height), Px(GridSizePx))

\* setupGrid(): every bucket empty
EmptyGrid == [c \in 0..(Cols - 1) |-> [r \in 0..(Rows - 1) |-> << >>]]

CellOf(pos) == [col |-> FloorDiv(pos.x, Px(GridSizePx)),
                row |-> FloorDiv(pos.y, Px(GridSizePx))]

InGrid(c, r) == c >= 0 /\ c < Cols /\ r >= 0 /\ r < Rows

\* the push loop with the cell clamped into the grid instead of tested
RECURSIVE PlaceAgentsClamped(_, _, _, _)
PlaceAgentsClamped(g, os, as, k) ==
    IF k > Len(as) THEN g
    ELSE LET cell == CellOf(os[as[k]].position)
             c == Max(0, Min(cell.col, Cols - 1))
             r == Max(0, Min(cell.row, Rows - 1))
         IN  PlaceAgentsClamped([g EXCEPT ![c][r] = Append(@, as[k])], os, as, k + 1)

RECURSIVE PlaceAgents(_, _, _, _)
PlaceAgents(g, os, as, k) ==
    IF k > Len(as) THEN g
    ELSE LET cell == CellOf(os[as[k]].position)
         IN  PlaceAgents(IF InGrid(cell.col, cell.row)
                         THEN [g EXCEPT ![cell.col][cell.row] = Append(@, as[k])]
                         ELSE g,
                         os, as, k + 1)

UpdateGridNoClear(g, os, as) == PlaceAgents(g, os, as, 1)

\* updateGrid(): clear every bucket, then push each active agent into the
\* bucket of its cell, when the cell is in the grid.
UpdateGrid(g, os, as) == PlaceAgents(EmptyGrid, os, as, 1)

Qualifies(os, id, other) ==
    /\ other # id
    /\ Dist(os[id].position, os[other].position) < os[id].perceptionRadius

\* seqs[lo] \o ... \o seqs[hi]
RECURSIVE Concat(_, _, _)
Concat(seqs, lo, hi) ==
    IF lo > hi THEN << >>
    ELSE IF lo = hi THEN seqs[lo]
    ELSE Concat(seqs, lo, (lo + hi) \div 2) \o Concat(seqs, (lo + hi) \div 2 + 1, hi)

\* the scan starting with the agent's own bucket, the rest of the block after it
ScanOrderOwnFirst(g, pos, range) ==
    LET side == 2 * range + 1
        own == range * side + range + 1
        bucket(k) ==
            LET c == CellOf(pos).col + ((k - 1) \div side) - range
                r == CellOf(pos).row + ((k - 1) % side) - range
            IN  IF InGrid(c, r) /\ k # own THEN g[c][r] ELSE << >>
    IN  (IF InGrid(CellOf(pos).col, CellOf(pos).row)
         THEN g[CellOf(pos).col][CellOf(pos).row] ELSE << >>)
          \o Concat([k \in 1..(side * side) |-> bucket(k)], 1, side * side)

\* the scan stopping one column short: i < range in place of i <= range
ScanOrderShort(g, pos, range) ==
    LET side == 2 * range + 1
        bucket(k) ==
            LET c == CellOf(pos).col + ((k - 1) \div side) - range
                r == CellOf(pos).row + ((k - 1) % side) - range
            IN  IF InGrid(c, r) THEN g[c][r] ELSE << >>
    IN  Concat([k \in 1..(side * (side - 1)) |-> bucket(k)], 1, side * (side - 1))

\* The agents getNeighbors examines, in the order it examines them: the
\* cells for i = -range..range and, for each i, j = -range..range (cell k
\* of side * side), each bucket front to back; a cell off the grid has none.
ScanOrder(g, pos, range) ==
    LET side == 2 * range + 1
        bucket(k) ==
            LET c == CellOf(pos).col + ((k - 1) \div side) - range
                r == CellOf(pos).row + ((k - 1) % side) - range
            IN  IF InGrid(c, r) THEN g[c][r] ELSE << >>
    IN  Concat([k \in 1..(side * side) |-> bucket(k)], 1, side * side)

GetNeighborsUncapped(g, os, id) ==
    LET Test(other) == Qualifies(os, id, other)
    IN  SelectSeq(ScanOrder(g, os[id].position,
                            CeilDiv(os[id].perceptionRadius, Px(GridSizePx))), Test)

\* getNeighbors(agent): ids, in the order found.  The loop returns as soon
\* as it has pushed the NeighborLimit-th agent: it returns the first
\* NeighborLimit of the examined agents that qualify.
GetNeighbors(g, os, id) ==
    LET Test(other) == Qualifies(os, id, other)
        found == SelectSeq(ScanOrder(g, os[id].position,
                                     CeilDiv(os[id].perceptionRadius, Px(GridSizePx))),
                           Test)
    IN  SubSeq(found, 1, Min(Len(found), NeighborLimit))

\* The objects behind a list of ids, as they are in os.
Deref(os, ids) == [k \in 1..Len(ids) |-> os[ids[k]]]

RemoveAt(seq, i) == SubSeq(seq, 1, i - 1) \o SubSeq(seq, i + 1, Len(seq))

\* The five steering vectors update() computes for one agent, given the
\* neighbor objects.
Forces(self, neighbors) ==
    [separation |-> Separation(self, neighbors),
     alignment |-> Alignment(self, neighbors),
     cohesion |-> Cohesion(self, neighbors),
     seek |-> SeekGoal(self, ExitCenter),
     wallAvoid |-> WallAvoidance(self)]

\* The weighted sum update() builds from them, added in the program's order.
Weighted(forces, ps) ==
    VAdd(VAdd(VAdd(VAdd(VAdd(Zero, VMult(forces.separation, ps.separationWeight)),
                             VMult(forces.alignment, ps.alignmentWeight)),
                        VMult(forces.cohesion, ps.cohesionWeight)),
                   VMult(forces.seek, ps.goalWeight)),
         VMult(forces.wallAvoid, WallAvoidWeight))

\* The force update() applies to one agent, given the neighbor objects.
CombinedForce(self, neighbors, ps) == Weighted(Forces(self, neighbors), ps)

\* The end of one iteration: the agent stored as moved, spliced out of the
\* list when at the exit, its speed added to the totals, and the history.
SweepDone(st, i, neighbors, forces, forced, moved) ==
    [objs |-> [st.objs EXCEPT ![st.agents[i]] = moved],
     agents |-> IF IsAtExit(moved.position) THEN RemoveAt(st.agents, i) ELSE st.agents,
     totalSpeed |-> st.totalSpeed + Mag(moved.velocity),
     jamThisFrame |-> st.jamThisFrame + (IF Mag(moved.velocity) < JamSpeed THEN 1 ELSE 0),
     swept |-> Append(st.swept,
                      [id |-> st.agents[i],
                       neighbors |-> neighbors,
                       active |-> st.agents,
                       queryPos |-> st.objs[st.agents[i]].position,
                       queryVel |-> st.objs[st.agents[i]].velocity,
                       forcedVel |-> forced.velocity,
                       positions |-> [o \in DOMAIN st.objs |-> st.objs[o].position],
                       seek |-> forces.seek,
                       separation |-> forces.separation,
                       alignment |-> forces.alignment,
                       cohesion |-> forces.cohesion,
                       wallAvoid |-> forces.wallAvoid,
                       neighborPos |-> [k \in 1..Len(neighbors) |->
                                           st.objs[neighbors[k]].position],
                       position |-> moved.position,
                       velocity |-> moved.velocity,
                       removed |-> IsAtExit(moved.position)])]

\* agent.applyForce(force); agent.update(this.env)
SweepForced(st, i, neighbors, forces, forced) ==
    SweepDone(st, i, neighbors, forces, forced, AgentUpdate(forced))

\* The steering vectors of agent i, weighted and applied.
SweepForces(st, ps, i, neighbors, forces) ==
    SweepForced(st, i, neighbors, forces,
                ApplyForce(st.objs[st.agents[i]], Weighted(forces, ps)))

\* The neighbors of agent i dereferenced as they are at this point.
SweepNeighbors(st, ps, i, neighbors) ==
    SweepForces(st, ps, i, neighbors,
                Forces(st.objs[st.agents[i]], Deref(st.objs, neighbors)))

\* One iteration of update()'s loop, for index i of the active list.
\* st: the objects, the active list, the running totals and the history.
SweepStep(st, g, ps, i) ==
    SweepNeighbors(st, ps, i, GetNeighbors(g, st.objs, st.agents[i]))

\* for (let i = this.agents.length - 1; i >= 0; i--): the iterations for
\* index i down to the first, from state st.
RECURSIVE SweepSkipping(_, _, _, _)
\* the loop with the index stepped once more after a splice
SweepSkipping(st, g, ps, i) ==
    IF i < 1 \/ i > Len(st.agents) THEN st
    ELSE LET next == SweepStep(st, g, ps, i)
         IN  SweepSkipping(next, g, ps,
                           IF Len(next.agents) < Len(st.agents) THEN i - 2 ELSE i - 1)

RECURSIVE Sweep(_, _, _, _)
Sweep(st, g, ps, i) ==
    IF i < 1 \/ i > Len(st.agents) THEN st
    ELSE Sweep(SweepStep(st, g, ps, i), g, ps, i - 1)

\* pi r^2 for r in pixels, rounded (pi as 355/113)
DiscArea(rPx) == RoundDiv(355 * rPx * rPx, 113)

\* The getNeighbors calls of calculateMaxDensity(), one per agent of the
\* active list as: the agent asked about, the list, and what is returned.
DensityQueries(g, os, as) ==
    [k \in 1..Len(as) |->
        [id |-> as[k], active |-> as, neighbors |-> GetNeighbors(g, os, as[k])]]

\* neighbors.length / (Math.PI * perceptionRadius ** 2), in 1e-6 per square pixel
LocalDensityOf(os, query) ==
    RoundDiv(Len(query.neighbors) * 1000000,
             DiscArea(os[query.id].perceptionRadius \div SC))

\* maxD after the loop over the queries: the largest local density, 0 when
\* there is none.
MaxDensityOf(os, queries) ==
    LET local == {LocalDensityOf(os, queries[k]) : k \in 1..Len(queries)}
    IN  IF local = {} THEN 0 ELSE CHOOSE d \in local : \A e \in local : e <= d

\* calculateMaxDensity(): the largest local density over the active list, 0
\* when it is empty.
CalculateMaxDensity(g, os, as) == MaxDensityOf(os, DensityQueries(g, os, as))

----------------------------------------------------------------------------
(* Bounds and inputs *)

MaxFrame == 285

MaxResets == 1

ResetFrames == 4

P(x, y) == Vec(Px(x), Px(y))

\* Math.random() in initAgents: the sequences of candidate spawn points it
\* may yield, each point inside the start area [50,250) x [50,550).  A
\* candidate that is not valid is drawn again (the next point of the sequence).
Streams ==
    { << P(248, 300), P(150, 150), P(240, 310), P(245, 295), P(238, 302),
         P(248, 308), P(242, 290), P(236, 296), P(249, 312), P(244, 304),
         P(239, 314), P(247, 288), P(235, 306) >>,
      << P(60, 90), P(240, 350), P(97, 60) >>,
      << P(200, 500), P(248, 300), P(248, 300) >>,
      << P(230, 330), P(230, 335), P(226, 332) >>,
      << P(100, 300), P(130, 300), P(120, 320) >>,
      << P(100, 300), P(130, 300), P(145, 510), P(175, 500) >> }

\* numAgents in the long runs (every frame up to MaxFrame).
NumAgentsChoices == {0, 1, 2}

\* numAgents in the short runs (ResetFrames frames a run, with resets).
CrowdChoices == {0, 2, 4, 12}

\* The constructor's params, numAgents aside (50 there).
DefaultParams(n) ==
    [numAgents |-> n,
     separationWeight |-> (15 * SC) \div 10,
     alignmentWeight |-> SC,
     cohesionWeight |-> SC,
     goalWeight |-> (12 * SC) \div 10,
     perceptionRadius |-> Px(50)]

\* What reset() may be handed: all six keys, as main.js builds it, or a few.
ResetParams ==
    { [numAgents |-> 2],
      [numAgents |-> 1, separationWeight |-> 2 * SC, alignmentWeight |-> 0,
       cohesionWeight |-> 0, goalWeight |-> SC, perceptionRadius |-> Px(30)] }

----------------------------------------------------------------------------
(* Simulation: construction, reset, update *)

\* The do-while of initAgents, for n agents: the first n valid candidates of
\* the stream, from its k-th on.
RECURSIVE Spawn(_, _, _, _)
Spawn(stream, k, n, found) ==
    IF Len(found) >= n \/ k > Len(stream) THEN found
    ELSE Spawn(stream, k + 1, n,
               IF IsPositionValid(stream[k]) THEN Append(found, stream[k])
               ELSE found)

\* Whether the stream holds the n valid candidates initAgents waits for.
Serves(stream, n) == Len(Spawn(stream, 1, n, << >>)) = n

\* Identity of the k-th agent created by the gen-th initAgents call.
IdOf(gen, k) == gen * 100 + k

\* initAgents(): the new active list and the new objects.
InitAgents(ps, stream, gen) ==
    LET found == Spawn(stream, 1, ps.numAgents, << >>)
    IN  [agents |-> [k \in 1..Len(found) |-> IdOf(gen, k)],
         objs |-> [id \in {IdOf(gen, k) : k \in 1..Len(found)} |->
                      NewAgent(found[id - IdOf(gen, 0)], Px(MaxSpeedPx),
                               ps.perceptionRadius, Px(DesiredSeparationPx))]]

Range(seq) == {seq[k] : k \in 1..Len(seq)}

NoProbe == [kind |-> "none"]

----------------------------------------------------------------------------
(* Lab 1: the finite automaton for a^n b^m *)

S0 == 0

S1 == 1

S2 == 2

ERROR == -1

\* the S2 case sending "a" back to S1
ProcessCharBackToA(state, c) ==
    IF state = S0 THEN (IF c = "a" THEN S1 ELSE IF c = "b" THEN S2 ELSE ERROR)
    ELSE IF state = S1 THEN (IF c = "a" THEN S1 ELSE IF c = "b" THEN S2 ELSE ERROR)
    ELSE IF state = S2 THEN (IF c = "b" THEN S2 ELSE IF c = "a" THEN S1 ELSE ERROR)
    ELSE state

\* Automaton.processChar(c): the state it leaves
ProcessChar(state, c) ==
    IF state = S0 THEN (IF c = "a" THEN S1 ELSE IF c = "b" THEN S2 ELSE ERROR)
    ELSE IF state = S1 THEN (IF c = "a" THEN S1 ELSE IF c = "b" THEN S2 ELSE ERROR)
    ELSE IF state = S2 THEN (IF c = "b" THEN S2 ELSE ERROR)
    ELSE state

\* No word under way: a new Automaton, nothing read, nothing returned.
NoWord == [state |-> S0, word |-> << >>, pos |-> 0, result |-> "none"]

\* The state new Simulation(canvas) leaves, for numAgents drawn from counts.
SimulationConstructed(counts) ==
    \E n \in counts :
    \E made \in {InitAgents(DefaultParams(n), stream, 0) :
                    stream \in {str \in Streams : Serves(str, n)}} :
        LET ps == DefaultParams(n)
        IN  /\ params = ps
            /\ objs = made.objs
            /\ agents = made.agents
            /\ grid = EmptyGrid
            /\ frame = 0
            /\ maxDensity = 0
            /\ jamCount = 0
            /\ averageSpeed = -1   \* undefined until the first update
            /\ reports = 0
            /\ resets = 0
            /\ snap = [objs |-> << >>, agents |-> << >>, density |-> << >>]
            /\ swept = << >>

\* The page as loaded: the simulation constructed, no word being read and
\* no function under test.
Constructed(counts) ==
    SimulationConstructed(counts) /\ probe = NoProbe /\ automaton = NoWord

Init == Constructed(NumAgentsChoices)

InitCrowd == Constructed(CrowdChoices)

\* The average update() stores: the speeds summed in the sweep over the
\* agents left.
AverageSpeedOf(totalSpeed, left) ==
    IF left > 0 THEN RoundDiv(totalSpeed, left) ELSE 0

\* a frame counted as jammed whenever the count is not negative
JamFrameAlways(jamThisFrame) == IF jamThisFrame >= 0 THEN 1 ELSE 0

\* the jam counter raised by the number of slow agents
JamFramePerAgent(jamThisFrame) == jamThisFrame

\* jamThisFrame > 0 ? 1 : 0
JamFrame(jamThisFrame) == IF jamThisFrame > 0 THEN 1 ELSE 0

\* Simulation.update(), the whole of it: os are the objects the active list
\* holds, g the grid updateGrid() leaves, st the state the sweep leaves.
Update ==
    /\ frame < MaxFrame
    /\ \E os \in {[id \in Range(agents) |-> objs[id]]} :
       \E g \in {UpdateGrid(grid, os, agents)} :
       \E st \in {Sweep([objs |-> os, agents |-> agents, totalSpeed |-> 0,
                         jamThisFrame |-> 0, swept |-> << >>],
                        g, params, Len(agents))} :
       \E queries \in {DensityQueries(g, st.objs, st.agents)} :
       \E density \in {MaxDensityOf(st.objs, queries)} :
           /\ frame' = frame + 1
           /\ grid' = g
           /\ objs' = st.objs
           /\ agents' = st.agents
           /\ maxDensity' = Max(maxDensity, density)
           /\ jamCount' = jamCount + JamFrame(st.jamThisFrame)
           /\ reports' = reports + (IF Len(st.agents) = 0 THEN 1 ELSE 0)
           /\ averageSpeed' = AverageSpeedOf(st.totalSpeed, Len(st.agents))
           /\ snap' = [objs |-> os, agents |-> agents, density |-> queries]
           /\ swept' = st.swept
    /\ UNCHANGED <<params, resets, probe, automaton>>

\* reset without the Object.assign: the old params kept
AssignIgnored(ps, newParams) == ps

\* Object.assign(this.params, newParams)
Assign(ps, newParams) ==
    [key \in DOMAIN ps |-> IF key \in DOMAIN newParams THEN newParams[key] ELSE ps[key]]

\* Simulation.reset(newParams).  The grid is not rebuilt here: until the next
\* update its buckets still hold the agents of the run before.
Reset ==
    /\ resets < MaxResets
    /\ \E newParams \in ResetParams :
       \E ps \in {Assign(params, newParams)} :
       \E stream \in {str \in Streams : Serves(str, ps.numAgents)} :
         LET made == InitAgents(ps, stream, resets + 1)
             held == {id \in DOMAIN objs : \E c \in 0..(Cols - 1), r \in 0..(Rows - 1) :
                         id \in Range(grid[c][r])}
         IN  /\ params' = ps
             /\ agents' = made.agents
             /\ objs' = [id \in held \cup DOMAIN made.objs |->
                            IF id \in held THEN objs[id] ELSE made.objs[id]]
    /\ frame' = 0
    /\ maxDensity' = 0
    /\ jamCount' = 0
    /\ resets' = resets + 1
    /\ swept' = << >>
    /\ UNCHANGED <<grid, averageSpeed, reports, snap, probe, automaton>>

\* The points isPositionValid is probed at: every pair of these coordinates,
\* in pixels and one unit to either side of the edges that decide.
ProbeCoords ==
    {Px(c) + d : c \in {0, 15, 25, 95, 150, 205, 295, 325}, d \in {-1, 0, 1}}
      \cup {Px(800) + d : d \in {-1, 0, 1}}

ProbeYs == {y \in ProbeCoords : y <= Px(Height) + 1} \cup {Px(c) + d : c \in {575, 600}, d \in {-1, 0, 1}}

\* A call of env.isPositionValid(new Vector(x, y)), its result kept.
ProbeValid ==
    /\ \E x \in ProbeCoords, y \in ProbeYs :
          probe' = [kind |-> "valid", pos |-> Vec(x, y),
                    result |-> IsPositionValid(Vec(x, y))]
    /\ UNCHANGED <<objs, agents, grid, frame, maxDensity, jamCount, averageSpeed,
                   params, reports, resets, snap, swept, automaton>>

\* The characters of the words: "a", "b" and, for any other character, "c".
Alphabet == {"a", "b", "c"}

MaxWordLen == 4

\* Every word of up to MaxWordLen characters, and the test words of the
\* README ("l" and " " are characters other than "a" and "b", as "c" is).
Words ==
    UNION {[1..n -> Alphabet] : n \in 0..MaxWordLen}
      \cup { <<"a", "a", "a", "b", "b", "b">>, <<"b", "b", "b", "a">>,
             <<"l", "a", "b">>, <<"a", "b", " ", "c">> }

\* const automaton = new Automaton(); identifyWord(automaton, word) entered
InitAutomaton ==
    /\ SimulationConstructed({0})
    /\ probe = NoProbe
    /\ \E word \in Words :
          automaton = [state |-> S0, word |-> word, pos |-> 0, result |-> "none"]

simVars == <<objs, agents, grid, frame, maxDensity, jamCount, averageSpeed,
             params, reports, resets, snap, swept, probe>>

\* One iteration of the loop of identifyWord: processChar(char), then
\* return false if the state is ERROR.
IdentifyStep ==
    /\ automaton.result = "none"
    /\ automaton.pos < Len(automaton.word)
    /\ \E state \in {ProcessChar(automaton.state, automaton.word[automaton.pos + 1])} :
          automaton' = [automaton EXCEPT
                           !.state = state,
                           !.pos = @ + 1,
                           !.result = IF state = ERROR THEN "false" ELSE @]
    /\ UNCHANGED simVars

\* The loop of identifyWord is through: return state === S1 || state === S2.
IdentifyReturn ==
    /\ automaton.result = "none"
    /\ automaton.pos = Len(automaton.word)
    /\ automaton' = [automaton EXCEPT
                        !.result = IF automaton.state = S1 \/ automaton.state = S2
                                   THEN "true" ELSE "false"]
    /\ UNCHANGED simVars

\* automaton.processChar(c) called on the automaton identifyWord has left.
ProcessMore ==
    /\ automaton.result # "none"
    /\ \E c \in Alphabet :
          automaton' = [automaton EXCEPT !.state = ProcessChar(@, c)]
    /\ UNCHANGED simVars

NextAutomaton == IdentifyStep \/ IdentifyReturn \/ ProcessMore

SpecAutomaton == InitAutomaton /\ [][NextAutomaton]_vars

----------------------------------------------------------------------------
(* Lab 2: minimax with and without alpha-beta pruning *)

\* Infinity: above every leaf value (and -Infinity below)
Infinity == 1000

\* new Node(value, depth) with its children; value "null" for an inner node
Node(value, children, depth) == [value |-> value, children |-> children, depth |-> depth]

\* buildTree(depth, leafValues, currentDepth, valueIndex): {root, valueIndex}.
\* leafValues is indexed from 0 in the program, from 1 here.
RECURSIVE BuildTree(_, _, _, _)
BuildTree(depth, leafValues, currentDepth, valueIndex) ==
    IF currentDepth = depth
    THEN [root |-> Node(leafValues[valueIndex + 1], << >>, currentDepth),
          valueIndex |-> valueIndex + 1]
    ELSE LET first == BuildTree(depth, leafValues, currentDepth + 1, valueIndex)
             second == BuildTree(depth, leafValues, currentDepth + 1, first.valueIndex)
         IN  [root |-> Node("null", <<first.root, second.root>>, currentDepth),
              valueIndex |-> second.valueIndex]

\* minimax(node, depth, isMaximizingPlayer, metrics): the value returned and
\* metrics.nodesEvaluated after the call.  MinimaxLoop: the for loop from
\* child k on, best being maxEval or minEval so far.
RECURSIVE Minimax(_, _, _, _), MinimaxLoop(_, _, _, _, _, _)
MinimaxLoop(children, k, depth, isMaximizingPlayer, best, metrics) ==
    IF k > Len(children) THEN [value |-> best, metrics |-> metrics]
    ELSE LET r == Minimax(children[k], depth - 1, ~isMaximizingPlayer, metrics)
         IN  MinimaxLoop(children, k + 1, depth, isMaximizingPlayer,
                         IF isMaximizingPlayer THEN Max(best, r.value)
                         ELSE Min(best, r.value),
                         r.metrics)

Minimax(node, depth, isMaximizingPlayer, metrics) ==
    IF Len(node.children) = 0
    THEN [value |-> node.value, metrics |-> metrics + 1]
    ELSE MinimaxLoop(node.children, 1, depth, isMaximizingPlayer,
                     IF isMaximizingPlayer THEN -Infinity ELSE Infinity, metrics)

RECURSIVE MinimaxAlphaBeta(_, _, _, _, _, _), AlphaBetaLoop(_, _, _, _, _, _, _, _)
RECURSIVE AlphaBetaLoopCutEarly(_, _, _, _, _, _, _, _)

\* the loop with the cut-off test turned around (alpha <= beta)
AlphaBetaLoopCutEarly(children, k, depth, alpha, beta, isMaximizingPlayer, best, metrics) ==
    IF k > Len(children) THEN [value |-> best, metrics |-> metrics]
    ELSE LET r == MinimaxAlphaBeta(children[k], depth - 1, alpha, beta,
                                   ~isMaximizingPlayer, metrics)
             newBest == IF isMaximizingPlayer THEN Max(best, r.value)
                        ELSE Min(best, r.value)
             newAlpha == IF isMaximizingPlayer THEN Max(alpha, r.value) ELSE alpha
             newBeta == IF isMaximizingPlayer THEN beta ELSE Min(beta, r.value)
         IN  IF newAlpha <= newBeta
             THEN [value |-> newBest, metrics |-> r.metrics]
             ELSE AlphaBetaLoopCutEarly(children, k + 1, depth, newAlpha, newBeta,
                                        isMaximizingPlayer, newBest, r.metrics)

\* The for loop of minimaxAlphaBeta from child k on: evaluate the child,
\* update maxEval and alpha (or minEval and beta), break if beta <= alpha.
AlphaBetaLoop(children, k, depth, alpha, beta, isMaximizingPlayer, best, metrics) ==
    IF k > Len(children) THEN [value |-> best, metrics |-> metrics]
    ELSE LET r == MinimaxAlphaBeta(children[k], depth - 1, alpha, beta,
                                   ~isMaximizingPlayer, metrics)
             newBest == IF isMaximizingPlayer THEN Max(best, r.value)
                        ELSE Min(best, r.value)
             newAlpha == IF isMaximizingPlayer THEN Max(alpha, r.value) ELSE alpha
             newBeta == IF isMaximizingPlayer THEN beta ELSE Min(beta, r.value)
         IN  IF newBeta <= newAlpha
             THEN [value |-> newBest, metrics |-> r.metrics]
             ELSE AlphaBetaLoop(children, k + 1, depth, newAlpha, newBeta,
                                isMaximizingPlayer, newBest, r.metrics)

\* minimaxAlphaBeta(node, depth, alpha, beta, isMaximizingPlayer, metrics)
MinimaxAlphaBeta(node, depth, alpha, beta, isMaximizingPlayer, metrics) ==
    IF Len(node.children) = 0
    THEN [value |-> node.value, metrics |-> metrics + 1]
    ELSE AlphaBetaLoop(node.children, 1, depth, alpha, beta, isMaximizingPlayer,
                       IF isMaximizingPlayer THEN -Infinity ELSE Infinity, metrics)

MaxDepth == 2

\* The values a leaf may take in the enumerated trees.
LeafChoices == {3, 5, 6}

RECURSIVE Pow2(_)
Pow2(n) == IF n = 0 THEN 1 ELSE 2 * Pow2(n - 1)

\* main(): the tree of the lab, 5 levels and 32 leaves
MainDepth == 5

MainLeafValues ==
    << 5, 3, 6, 9, 1, 2, 0, -1, 4, 7, 8, 10, 12, 14, 15, 18, 20, 22, 25, 30, 35,
       40, 45, 50, 55, 60, 65, 70, 75, 80, 85, 90 >>

\* The trees: every complete binary tree of depth up to MaxDepth with leaves
\* from LeafChoices, and the tree of main().
Trees ==
    {[depth |-> MainDepth, leafValues |-> MainLeafValues]}
      \cup UNION {{[depth |-> d, leafValues |-> lv] : lv \in [1..Pow2(d) -> LeafChoices]}
                    : d \in 0..MaxDepth}

\* buildTree(depth, leafValues) done, the player to move chosen.
InitMinimax ==
    /\ SimulationConstructed({0})
    /\ automaton = NoWord
    /\ \E tree \in Trees, isMaximizingPlayer \in BOOLEAN :
          probe = [kind |-> "built",
                   depth |-> tree.depth,
                   leafValues |-> tree.leafValues,
                   root |-> BuildTree(tree.depth, tree.leafValues, 0, 0).root,
                   isMaximizingPlayer |-> isMaximizingPlayer]

minimaxUnchanged ==
    <<objs, agents, grid, frame, maxDensity, jamCount, averageSpeed, params,
      reports, resets, snap, swept, automaton>>

\* regularResult = minimax(root, depth, isMaximizingPlayer, {nodesEvaluated: 0})
RunMinimax ==
    /\ probe.kind = "built"
    /\ \E r \in {Minimax(probe.root, probe.depth, probe.isMaximizingPlayer, 0)} :
          probe' = [kind |-> "regular",
                    depth |-> probe.depth,
                    leafValues |-> probe.leafValues,
                    root |-> probe.root,
                    isMaximizingPlayer |-> probe.isMaximizingPlayer,
                    regularResult |-> r.value,
                    regularMetrics |-> r.metrics]
    /\ UNCHANGED minimaxUnchanged

\* alphaBetaResult = minimaxAlphaBeta(root, depth, -Infinity, Infinity,
\*                                    isMaximizingPlayer, {nodesEvaluated: 0})
RunAlphaBeta ==
    /\ probe.kind = "regular"
    /\ \E r \in {MinimaxAlphaBeta(probe.root, probe.depth, -Infinity, Infinity,
                                    probe.isMaximizingPlayer, 0)} :
          probe' = [kind |-> "both",
                    depth |-> probe.depth,
                    leafValues |-> probe.leafValues,
                    root |-> probe.root,
                    isMaximizingPlayer |-> probe.isMaximizingPlayer,
                    regularResult |-> probe.regularResult,
                    regularMetrics |-> probe.regularMetrics,
                    alphaBetaResult |-> r.value,
                    alphaBetaMetrics |-> r.metrics]
    /\ UNCHANGED minimaxUnchanged

NextMinimax == RunMinimax \/ RunAlphaBeta

SpecMinimax == InitMinimax /\ [][NextMinimax]_vars

\* A run of the animation loop: update after update.
Next == Update

PlacedFrames == 30

\* Agents placed by the caller at literal coordinates instead of spawned
\* (sim.agents = [new Agent(x, y, 2, perceptionRadius, 20), ...]): on the
\* right edge of the canvas, on its bottom edge, left of it, in the room, and
\* on either side of the exit's centre.
Placements ==
    { << P(800, 300) >>,
      << P(790, 300), P(800, 300) >>,
      << P(800, 300), P(790, 300) >>,
      << P(400, 600) >>,
      << P(-1, 300), P(30, 300) >>,
      << P(230, 330), P(230, 335) >>,
      << P(745, 300), P(786, 300) >> }

InitPlaced ==
    \E placed \in Placements :
        LET ps == DefaultParams(Len(placed))
        IN  /\ params = ps
            /\ agents = [k \in 1..Len(placed) |-> IdOf(0, k)]
            /\ objs = [id \in {IdOf(0, k) : k \in 1..Len(placed)} |->
                          NewAgent(placed[id - IdOf(0, 0)], Px(MaxSpeedPx),
                                   ps.perceptionRadius, Px(DesiredSeparationPx))]
            /\ grid = EmptyGrid
            /\ frame = 0
            /\ maxDensity = 0
            /\ jamCount = 0
            /\ averageSpeed = -1
            /\ reports = 0
            /\ resets = 0
            /\ snap = [objs |-> << >>, agents |-> << >>, density |-> << >>]
            /\ swept = << >>
            /\ probe = NoProbe
            /\ automaton = NoWord

\* The animation loop over placed agents, watched for PlacedFrames frames.
NextPlaced == frame < PlacedFrames /\ Update

SpecPlaced == InitPlaced /\ [][NextPlaced]_vars

Spec == Init /\ [][Next]_vars

\* Runs in which the reset button is pressed, at any frame up to ResetFrames.
ShortUpdate == frame < ResetFrames /\ Update

NextReset == ShortUpdate \/ Reset

SpecReset == InitCrowd /\ [][NextReset]_vars

\* Calls of isPositionValid on a constructed simulation.
NextValid == ProbeValid

\* new Simulation(canvas) with numAgents = 0: the environment alone.
InitValid == Constructed({0})

SpecValid == InitValid /\ [][NextValid]_vars

----------------------------------------------------------------------------
(* Properties.  snap holds the active list and the objects as updateGrid()  *)
(* saw them in the last update, swept one record per iteration of its loop. *)

\* C1: after every Agent.update the magnitude of the agent's velocity is at
\* most its maxSpeed, whatever force was applied and whether or not the
\* damping fired.
C1_SpeedWithinMax ==
    \A k \in 1..Len(swept) :
        Mag(swept[k].velocity) <= objs[swept[k].id].maxSpeed

C3_ExitRemoval ==
    /\ \A id \in Range(snap.agents) :
          (id \in Range(agents))
            <=> ~(Dist(objs[id].position, ExitCenter) < Px(ExitThreshold))
    /\ LET self == NewAgent(ExitCenter, Px(MaxSpeedPx), params.perceptionRadius,
                            Px(DesiredSeparationPx))
           moved == AgentUpdate(ApplyForce(self, CombinedForce(self, << >>, params)))
       IN  Dist(moved.position, ExitCenter) < Px(ExitThreshold)

\* C3 witness: an update in which one agent arrives and leaves the list while
\* another, still away from the exit, stays.
C3_Witness ==
    /\ \E id \in Range(snap.agents) : id \notin Range(agents)
    /\ \E id \in Range(snap.agents) : id \in Range(agents)

\* What iteration k of the sweep leaves of its agent when every force is
\* computed from the objects as they were at the start of the frame.
FromSnapshot(k) ==
    LET id == swept[k].id
        self == snap.objs[id]
        neighbors == GetNeighbors(grid, snap.objs, id)
    IN  AgentUpdate(ApplyForce(self,
                               CombinedForce(self, Deref(snap.objs, neighbors), params)))

\* C4: within one frame every agent's forces, and the neighbor query feeding
\* them, are computed from the positions and velocities the other agents had
\* at the start of the frame: the sweep leaves what a computation from the
\* frame-start snapshot leaves, whatever the processing order.
C4_SnapshotForces ==
    \A k \in 1..Len(swept) :
        /\ swept[k].position = FromSnapshot(k).position
        /\ swept[k].velocity = FromSnapshot(k).velocity

\* C5: in a run without reset the evacuation report is emitted exactly once,
\* in the update that empties the active list, and in no later update.
C5_ReportOnce ==
    /\ params.numAgents > 0 => reports <= 1
    /\ (params.numAgents > 0 /\ frame > 0 /\ agents = << >>) => reports = 1

\* The mean of the speeds of the agents in the active list, 0 when it is empty.
MeanSpeedOfRemaining ==
    AverageSpeedOf(VSum([k \in 1..Len(agents) |->
                            Vec(Mag(objs[agents[k]].velocity), 0)],
                        1, Len(agents)).x,
                   Len(agents))

\* C6: after every update averageSpeed is the mean of the speeds of the
\* agents that remain in the active list (0 when none remain): the speed of
\* an agent removed at the exit in the frame does not contribute.
C6_MeanOfRemaining ==
    frame > 0 => averageSpeed = MeanSpeedOfRemaining

\* The closed intervals [a1, a2] and [b1, b2] share a point.
Meets(a1, a2, b1, b2) == Max(a1, b1) <= Min(a2, b2)

\* The square of half-width AgentRadius centered on pos and rect share a
\* point (an edge or a corner in common counts).
SquareOverlaps(pos, rect) ==
    /\ Meets(pos.x - Px(AgentRadius), pos.x + Px(AgentRadius), rect.x, rect.x + rect.w)
    /\ Meets(pos.y - Px(AgentRadius), pos.y + Px(AgentRadius), rect.y, rect.y + rect.h)

OverlapsWall(pos) == \E i \in 1..Len(Walls) : SquareOverlaps(pos, Walls[i])

OverlapsZone(pos) ==
    \E i \in 1..Len(RestrictedZones) : SquareOverlaps(pos, RestrictedZones[i])

InBounds(pos) ==
    pos.x >= 0 /\ pos.x <= Px(Width) /\ pos.y >= 0 /\ pos.y <= Px(Height)

\* C7, as claimed: restricted zones are not part of the blocking test; for an
\* in-bounds point whose square overlaps a restricted zone but no wall,
\* isPositionValid returns true.
C7_ZonesIgnored ==
    (/\ probe.kind = "valid"
     /\ InBounds(probe.pos)
     /\ OverlapsZone(probe.pos)
     /\ ~OverlapsWall(probe.pos)) => probe.result = TRUE

\* C7, amended: restricted zones are part of the blocking test; for every
\* in-bounds point whose square overlaps a restricted zone, isPositionValid
\* returns false, as it does for a wall.
C7_ZonesBlock ==
    (/\ probe.kind = "valid"
     /\ InBounds(probe.pos)
     /\ OverlapsZone(probe.pos)) => probe.result = FALSE

\* C7 witness: a call at an in-bounds point whose square touches the
\* restricted zone and no wall.
C7_Witness ==
    /\ probe.kind = "valid"
    /\ InBounds(probe.pos)
    /\ OverlapsZone(probe.pos)
    /\ ~OverlapsWall(probe.pos)

\* C8: isPositionValid(point) is false exactly when the square of half-width
\* 5 centered on point overlaps a wall or a restricted zone, an edge in
\* common counting as overlap, or point is outside [0, width] x [0, height].
C8_ValidExactly ==
    probe.kind = "valid" =>
        (probe.result = FALSE
           <=> (OverlapsWall(probe.pos) \/ OverlapsZone(probe.pos)
                  \/ ~InBounds(probe.pos)))

\* C8 witness: a call at a point whose square has no more than an edge in
\* common with the restricted zone, clear of every wall and in bounds.
C8_Witness ==
    /\ probe.kind = "valid"
    /\ probe.pos.x + Px(AgentRadius) = RestrictedZones[1].x
    /\ probe.pos.y = Px(150)
    /\ probe.result = FALSE

\* C9: getNeighbors(agent) returns at most 10 agents, never the querying
\* agent, never the same agent twice, and each returned agent is at distance
\* less than the querying agent's perceptionRadius at the time of the query.
C9_NeighborsBounded ==
    \A k \in 1..Len(swept) :
        LET found == swept[k].neighbors
        IN  /\ Len(found) <= NeighborLimit
            /\ swept[k].id \notin Range(found)
            /\ Cardinality(Range(found)) = Len(found)
            /\ \A n \in 1..Len(found) :
                  Dist(swept[k].queryPos, swept[k].neighborPos[n])
                    < objs[swept[k].id].perceptionRadius

\* C9 witness: a sweep over more than 10 agents with a query that returns 10
\* agents in a frame that began with more than 10 others in its reach.
C9_Witness ==
    /\ \E k \in 1..Len(swept) :
          /\ Len(swept[k].neighbors) = NeighborLimit
          /\ Len(GetNeighborsUncapped(grid, snap.objs, swept[k].id)) > NeighborLimit
    /\ Len(swept) > NeighborLimit

\* maxSpeed in the direction of goal: the velocity seekGoal steers to.
Desired(pos, goal, maxSpeed) == VMult(Normalize(VSub(goal, pos)), maxSpeed)

\* C10, as claimed: seekGoal(goal) is non-zero whenever the agent's position
\* differs from goal, for every velocity of magnitude at most maxSpeed.
C10_NonZeroAwayFromGoal ==
    \A k \in 1..Len(swept) :
        (/\ swept[k].queryPos # ExitCenter
         /\ Mag(swept[k].queryVel) <= objs[swept[k].id].maxSpeed)
            => swept[k].seek # Zero

\* C10, amended: seekGoal(goal) is the zero vector exactly when the velocity
\* already is maxSpeed in the direction of goal (for an agent at goal: when it
\* is at rest); for an agent at rest away from goal it is non-zero, of
\* magnitude maxSpeed up to rounding.
C10_ZeroWhenAtDesired ==
    \A k \in 1..Len(swept) :
        LET maxSpeed == objs[swept[k].id].maxSpeed
        IN  /\ swept[k].seek = Zero
                <=> swept[k].queryVel = Desired(swept[k].queryPos, ExitCenter, maxSpeed)
            /\ (swept[k].queryVel = Zero /\ swept[k].queryPos # ExitCenter)
                => /\ swept[k].seek # Zero
                   /\ Abs(Mag(swept[k].seek) - maxSpeed) <= 2

\* C10 witness: an agent away from the goal, already moving straight at it
\* at maxSpeed, for which seekGoal returned the zero vector.
C10_Witness ==
    \E k \in 1..Len(swept) :
        /\ swept[k].queryPos # ExitCenter
        /\ swept[k].queryVel # Zero
        /\ swept[k].seek = Zero

\* The start area of initAgents, [50, 250) x [50, 550).
InStartArea(pos) ==
    pos.x >= Px(50) /\ pos.x < Px(250) /\ pos.y >= Px(50) /\ pos.y < Px(550)

\* C11: reset(newParams), in any reachable state, leaves frame = 0,
\* maxDensity = 0, jamCount = 0, params the old params overwritten by
\* newParams, and an active list of exactly params.numAgents freshly created
\* agents with zero velocity and the new perceptionRadius (the walls, zones
\* and exit are the same before and after: no field of the state holds them).
C11_ResetEffect ==
    [][resets' # resets =>
        /\ frame' = 0 /\ maxDensity' = 0 /\ jamCount' = 0
        /\ DOMAIN params' = DOMAIN params
        /\ \E newParams \in ResetParams :
              \A key \in DOMAIN params :
                  params'[key] = IF key \in DOMAIN newParams THEN newParams[key]
                                 ELSE params[key]
        /\ Len(agents') = params'.numAgents
        /\ Cardinality(Range(agents')) = Len(agents')
        /\ \A id \in Range(agents') :
              /\ id \notin DOMAIN objs
              /\ objs'[id].velocity = Zero
              /\ objs'[id].perceptionRadius = params'.perceptionRadius
              /\ objs'[id].maxSpeed = Px(MaxSpeedPx)
              /\ InStartArea(objs'[id].position)
              /\ IsPositionValid(objs'[id].position)]_vars

\* C11 witness: the state a reset leaves when pressed after some updates of a
\* crowd, with every parameter replaced.
C11_Witness ==
    /\ resets = 1 /\ frame = 0
    /\ Len(snap.agents) > 2
    /\ Len(agents) = 1
    /\ params.perceptionRadius = Px(30)
    /\ objs[agents[1]].perceptionRadius = Px(30)

\* C12: with numAgents = 0 the first update leaves maxDensity = 0 and
\* jamCount = 0 and takes the evacuation-complete branch in that first frame.
C12_EmptyFirstUpdate ==
    (params.numAgents = 0 /\ frame = 1) =>
        /\ maxDensity = 0
        /\ jamCount = 0
        /\ reports = 1
        /\ agents = << >>

\* C12 witness: the state after the first update of a simulation constructed
\* with no agents.
C12_Witness ==
    /\ params.numAgents = 0 /\ frame = 1
    /\ snap.agents = << >> /\ swept = << >>

\* The walls and restricted zones whose closest point is at a distance d of
\* pos with 0 < d < radius.
RectsNear(pos, radius) ==
    {rect \in Range(Walls) \cup Range(RestrictedZones) :
        LET d == Dist(pos, ClosestPoint(pos, rect)) IN d > 0 /\ d < radius}

\* The neighbors of sweep record k at a distance d with 0 < d < desiredSeparation.
CloseNeighbors(k) ==
    {n \in 1..Len(swept[k].neighbors) :
        LET d == Dist(swept[k].queryPos, swept[k].neighborPos[n])
        IN  d > 0 /\ d < objs[swept[k].id].desiredSeparation}

\* C13: separation, alignment and cohesion each return the zero vector when
\* no neighbor contributes (no neighbor at all; for separation also none
\* within desiredSeparation), and wallAvoidance returns the zero vector when
\* no wall or zone is within wallPerceptionRadius, whatever the velocity.
C13_ZeroWithoutContributors ==
    \A k \in 1..Len(swept) :
        /\ swept[k].neighbors = << >> =>
              /\ swept[k].alignment = Zero
              /\ swept[k].cohesion = Zero
        /\ CloseNeighbors(k) = {} => swept[k].separation = Zero
        /\ RectsNear(swept[k].queryPos, objs[swept[k].id].wallPerceptionRadius) = {}
              => swept[k].wallAvoid = Zero

\* C13 witness: a moving agent with no neighbor and no wall in reach, and a
\* moving agent with a neighbor, none within desiredSeparation.
C13_Witness ==
    /\ \E k \in 1..Len(swept) :
          /\ swept[k].queryVel # Zero
          /\ swept[k].neighbors # << >>
          /\ CloseNeighbors(k) = {}
    /\ \E k \in 1..Len(swept) :
          /\ swept[k].queryVel # Zero
          /\ RectsNear(swept[k].queryPos, objs[swept[k].id].wallPerceptionRadius) = {}

C13_WitnessAlone ==
    \E k \in 1..Len(swept) :
        /\ swept[k].queryVel # Zero
        /\ swept[k].neighbors = << >>
        /\ RectsNear(swept[k].queryPos, objs[swept[k].id].wallPerceptionRadius) = {}

\* word is a^n b^m with n >= 0, m >= 0 and n + m >= 1.
IsAnBm(word) ==
    /\ Len(word) >= 1
    /\ \E n \in 0..Len(word) :
          \A i \in 1..Len(word) : word[i] = IF i <= n THEN "a" ELSE "b"

\* C15: identifyWord on a fresh Automaton returns true exactly when the word
\* is a^n b^m with n + m >= 1 (the empty word, an "a" after a "b" and any
\* other character are rejected), and once the automaton is in ERROR no
\* further character leaves it.
C15_RecognisesAnBm ==
    /\ [](automaton.result # "none" =>
             (automaton.result = "true" <=> IsAnBm(automaton.word)))
    /\ [][automaton.state = ERROR => automaton'.state = ERROR]_vars

\* C15 witness: a word with an "a" after a "b" rejected, the automaton left
\* in ERROR.
C15_Witness ==
    /\ automaton.word = <<"b", "b", "b", "a">>
    /\ automaton.result = "false"
    /\ automaton.state = ERROR

\* The leaves of the tree under node, left to right.
RECURSIVE LeavesOf(_)
LeavesOf(node) ==
    IF Len(node.children) = 0 THEN <<node.value>>
    ELSE LeavesOf(node.children[1]) \o LeavesOf(node.children[2])

\* The game value of the complete binary tree over leaves[lo..hi].
RECURSIVE GameValue(_, _, _, _)
GameValue(leaves, lo, hi, maximizing) ==
    IF lo = hi THEN leaves[lo]
    ELSE LET mid == (lo + hi - 1) \div 2
             left == GameValue(leaves, lo, mid, ~maximizing)
             right == GameValue(leaves, mid + 1, hi, ~maximizing)
         IN  IF maximizing THEN Max(left, right) ELSE Min(left, right)

\* C16: for every complete binary tree buildTree produces and every
\* assignment of leaf values, minimaxAlphaBeta at the root with alpha =
\* -Infinity and beta = Infinity returns the value minimax returns for the
\* same root and player, and counts no more evaluated leaves than minimax.
C16_AlphaBetaAgrees ==
    probe.kind = "both" =>
        /\ probe.alphaBetaResult = probe.regularResult
        /\ probe.alphaBetaMetrics <= probe.regularMetrics
        /\ LeavesOf(probe.root) = probe.leafValues
        /\ probe.regularMetrics = Pow2(probe.depth)
        /\ probe.regularResult
             = GameValue(probe.leafValues, 1, Len(probe.leafValues),
                         probe.isMaximizingPlayer)

\* C16 witness: the tree of main(), both algorithms run, alpha-beta having
\* skipped leaves.
C16_Witness ==
    /\ probe.kind = "both"
    /\ probe.depth = MainDepth
    /\ probe.isMaximizingPlayer
    /\ probe.alphaBetaMetrics < probe.regularMetrics

\* C17: in every update each agent that is in the active list at its start
\* has its forces applied and its position integrated exactly once, however
\* many agents the sweep removes at the exit: none skipped, none twice.
C17_EachAgentOnce ==
    /\ Len(swept) = Len(snap.agents)
    /\ \A id \in Range(snap.agents) :
          /\ Cardinality({k \in 1..Len(swept) : swept[k].id = id}) = 1
          /\ \A k \in 1..Len(swept) :
                swept[k].id = id =>
                    /\ swept[k].queryPos = snap.objs[id].position
                    /\ swept[k].queryVel = snap.objs[id].velocity
                    /\ objs[id].position = swept[k].position
                    /\ objs[id].velocity = swept[k].velocity

\* C17 witness: a sweep that removes an agent at the exit and goes on to
\* the agents before it in the list.
C17_Witness ==
    \E k \in 1..Len(swept) :
        /\ swept[k].removed
        /\ k < Len(swept)

\* The place of agent o in the frame's grid: its cell at the start of the
\* frame and its rank in the active list (the push order of its bucket).
PlaceOf(o) ==
    [col |-> CellOf(snap.objs[o].position).col,
     row |-> CellOf(snap.objs[o].position).row,
     rank |-> CHOOSE n \in 1..Len(snap.agents) : snap.agents[n] = o]

\* The agents that qualify for the query of sweep record k: in a bucket of
\* the block of cells around the querying agent, not the agent itself, and
\* nearer than perceptionRadius where they are at the time of the query.
QualifiedFor(k) ==
    LET id == swept[k].id
        radius == objs[id].perceptionRadius
        range == CeilDiv(radius, Px(GridSizePx))
        home == CellOf(swept[k].queryPos)
    IN  {o \in Range(snap.agents) :
            /\ o # id
            /\ InGrid(PlaceOf(o).col, PlaceOf(o).row)
            /\ Abs(PlaceOf(o).col - home.col) <= range
            /\ Abs(PlaceOf(o).row - home.row) <= range
            /\ Dist(swept[k].queryPos, swept[k].positions[o]) < radius}

\* o1 is met before o2 when the block is scanned column by column, each
\* column top to bottom.
ColumnMajorBefore(o1, o2) ==
    LET p1 == PlaceOf(o1)
        p2 == PlaceOf(o2)
    IN  \/ p1.col < p2.col
        \/ p1.col = p2.col /\ p1.row < p2.row
        \/ p1.col = p2.col /\ p1.row = p2.row /\ p1.rank < p2.rank

\* o1 is met before o2 when the querying agent's own bucket comes first,
\* then ring 1, then ring 2, row by row within a ring.
RingMajorBefore(k, o1, o2) ==
    LET home == CellOf(swept[k].queryPos)
        p1 == PlaceOf(o1)
        p2 == PlaceOf(o2)
        ring1 == Max(Abs(p1.col - home.col), Abs(p1.row - home.row))
        ring2 == Max(Abs(p2.col - home.col), Abs(p2.row - home.row))
    IN  \/ ring1 < ring2
        \/ ring1 = ring2 /\ p1.row < p2.row
        \/ ring1 = ring2 /\ p1.row = p2.row /\ p1.col < p2.col
        \/ ring1 = ring2 /\ p1.row = p2.row /\ p1.col = p2.col /\ p1.rank < p2.rank

\* C18, as claimed: when more than 10 agents qualify, getNeighbors returns
\* the first 10 in ring-major order: own bucket first, then ring 1, then
\* ring 2, row-major within each ring.
C18_RingMajorFirstTen ==
    \A k \in 1..Len(swept) :
        Cardinality(QualifiedFor(k)) > NeighborLimit =>
            LET found == swept[k].neighbors
            IN  /\ Len(found) = NeighborLimit
                /\ Range(found) \subseteq QualifiedFor(k)
                /\ \A m, n \in 1..Len(found) :
                      m < n => RingMajorBefore(k, found[m], found[n])
                /\ \A o \in QualifiedFor(k) \ Range(found) :
                      \A n \in 1..Len(found) : RingMajorBefore(k, found[n], o)

\* C18, amended: when more than 10 agents qualify, getNeighbors returns the
\* first 10 in the order of its two loops: the buckets of the block of cells
\* around the agent column by column from the left, each column from the top
\* row down, each bucket in push order; the own bucket is the middle one.
C18_ColumnMajorFirstTen ==
    \A k \in 1..Len(swept) :
        Cardinality(QualifiedFor(k)) > NeighborLimit =>
            LET found == swept[k].neighbors
            IN  /\ Len(found) = NeighborLimit
                /\ Range(found) \subseteq QualifiedFor(k)
                /\ \A m, n \in 1..Len(found) :
                      m < n => ColumnMajorBefore(found[m], found[n])
                /\ \A o \in QualifiedFor(k) \ Range(found) :
                      \A n \in 1..Len(found) : ColumnMajorBefore(found[n], o)

\* C18 witness: a query with more than 10 qualifying agents whose first
\* returned agent is in another bucket than the querying agent, a qualifying
\* agent of its own bucket being left out.
C18_Witness ==
    \E k \in 1..Len(swept) :
        /\ Cardinality(QualifiedFor(k)) > NeighborLimit
        /\ CellOf(snap.objs[swept[k].neighbors[1]].position) # CellOf(swept[k].queryPos)
        /\ \E o \in QualifiedFor(k) \ Range(swept[k].neighbors) :
              CellOf(snap.objs[o].position) = CellOf(swept[k].queryPos)

\* The agents of the last frame whose position, when the grid was rebuilt,
\* mapped to a cell outside the grid.
OffGrid ==
    {id \in Range(snap.agents) :
        ~InGrid(CellOf(snap.objs[id].position).col, CellOf(snap.objs[id].position).row)}

\* C19: an active agent whose position maps to a cell outside the grid is in
\* no bucket, yet the sweep of that frame visits it exactly once, from the
\* position it had, advances it by its new velocity, removes it exactly when
\* it then is at the exit and keeps it active otherwise; and no query of that
\* frame returns it as a neighbor.
C19_OffGridAgents ==
    \A id \in OffGrid :
        /\ \A c \in 0..(Cols - 1), r \in 0..(Rows - 1) : id \notin Range(grid[c][r])
        /\ Cardinality({k \in 1..Len(swept) : swept[k].id = id}) = 1
        /\ \A k \in 1..Len(swept) :
              /\ id \notin Range(swept[k].neighbors)
              /\ swept[k].id = id =>
                    /\ swept[k].queryPos = snap.objs[id].position
                    /\ swept[k].position = VAdd(swept[k].queryPos, swept[k].velocity)
                    /\ swept[k].velocity # Zero
                    /\ swept[k].removed = IsAtExit(swept[k].position)
                    /\ (id \in Range(agents)) = ~swept[k].removed

\* An agent off the grid stands within the perception radius of another
\* agent, whose query of that frame has been answered without it.
C19_Witness ==
    \E id \in OffGrid : \E k \in 1..Len(swept) :
        /\ swept[k].id # id
        /\ Dist(swept[k].queryPos, swept[k].positions[id]) < objs[swept[k].id].perceptionRadius
        /\ id \notin Range(swept[k].neighbors)
        /\ id \in Range(agents)

\* C20: in every iteration of the sweep, with v the velocity after the forces
\* clamped to maxSpeed, the agent ends at position + v with velocity v when
\* that candidate is valid, and otherwise at position + 0.8 v with velocity
\* 0.8 v, whether or not that second candidate is valid; either way the
\* position has advanced by exactly the final velocity.
C20_SingleSoftCorrection ==
    \A k \in 1..Len(swept) :
        LET v == Limit(swept[k].forcedVel, objs[swept[k].id].maxSpeed)
            damped == VMult(v, Damping)
        IN  /\ IsPositionValid(VAdd(swept[k].queryPos, v)) =>
                  /\ swept[k].velocity = v
                  /\ swept[k].position = VAdd(swept[k].queryPos, v)
            /\ ~IsPositionValid(VAdd(swept[k].queryPos, v)) =>
                  /\ swept[k].velocity = damped
                  /\ swept[k].position = VAdd(swept[k].queryPos, damped)
            /\ swept[k].position = VAdd(swept[k].queryPos, swept[k].velocity)

\* An agent has moved although both its candidate and the damped candidate
\* were invalid: it ends the frame at a position isPositionValid rejects.
C20_Witness ==
    \E k \in 1..Len(swept) :
        /\ ~IsPositionValid(VAdd(swept[k].queryPos,
                                 Limit(swept[k].forcedVel, objs[swept[k].id].maxSpeed)))
        /\ ~IsPositionValid(swept[k].position)
        /\ swept[k].position # swept[k].queryPos
        /\ objs[swept[k].id].position = swept[k].position

\* The agents processed in the last update whose speed after the step is
\* below 0.5, those removed at the exit included.
SlowInFrame(records) ==
    {k \in 1..Len(records) : Mag(records[k].velocity) < JamSpeed}

\* C21: an update raises jamCount by exactly 1 when at least one agent it
\* processed ends its step with a speed below 0.5 and leaves it as it is
\* otherwise; jamCount never decreases except in a reset, and jamCount is at
\* most frame in every state.
C21_JamCountPerFrame ==
    /\ [][frame' = frame + 1 =>
             jamCount' = jamCount + (IF SlowInFrame(swept') # {} THEN 1 ELSE 0)]_vars
    /\ [][resets' = resets => jamCount' >= jamCount]_vars
    /\ [](jamCount <= frame)

\* Frames of both kinds have passed: the counter was raised by a frame with
\* a slow agent, and the last update, which processed agents none of which
\* was slow, has left it where it was.
C21_Witness ==
    /\ jamCount > 0
    /\ jamCount < frame
    /\ swept # << >>
    /\ SlowInFrame(swept) = {}

\* C22: every agent a getNeighbors call of the last update returned, in the
\* sweep and in calculateMaxDensity, was in the active list when the call was
\* made.
C22_NeighborsActive ==
    /\ \A k \in 1..Len(swept) :
          Range(swept[k].neighbors) \subseteq Range(swept[k].active)
    /\ \A k \in 1..Len(snap.density) :
          Range(snap.density[k].neighbors) \subseteq Range(snap.density[k].active)

\* The agents updateGrid() has put in a bucket: those of the frame-start list
\* whose cell is in the grid.
Indexed ==
    {id \in Range(snap.agents) :
        InGrid(CellOf(snap.objs[id].position).col, CellOf(snap.objs[id].position).row)}

\* The other indexed agents at a distance of a strictly below a's
\* perceptionRadius, all positions as they are when updateGrid() has run.
WithinRadius(a) ==
    {o \in Indexed \ {a} :
        Dist(snap.objs[a].position, snap.objs[o].position) < snap.objs[a].perceptionRadius}

\* C23: on the grid updateGrid() has built and the agents as they are then,
\* getNeighbors(a) returns, for every indexed agent a with fewer than 10
\* other indexed agents within its radius, exactly those agents, each once.
C23_BlockCoversRadius ==
    \A a \in Indexed :
        Cardinality(WithinRadius(a)) < NeighborLimit =>
            /\ Range(GetNeighbors(grid, snap.objs, a)) = WithinRadius(a)
            /\ Len(GetNeighbors(grid, snap.objs, a)) = Cardinality(WithinRadius(a))

\* An agent has another within its radius in a column of cells next to its
\* own, and the first query of the sweep, made before any agent moved, is
\* this agent's and has returned the other.
C23_Witness ==
    /\ swept # << >>
    /\ swept[1].id \in Indexed
    /\ swept[1].neighbors = GetNeighbors(grid, snap.objs, swept[1].id)
    /\ \E o \in WithinRadius(swept[1].id) :
          /\ CellOf(snap.objs[o].position).col # CellOf(swept[1].queryPos).col
          /\ o \in Range(swept[1].neighbors)

====
